---- MODULE Spec2Model ----
(***************************************************************************)
(* votifast: a download -> decrypt pipeline on two asyncio queues          *)
(* (managers.py), driven by the orchestrator votifast_async (cli.py), and  *)
(* the session credential of SpotifyApi (api/__init__.py).                 *)
(*                                                                         *)
(* One action is one synchronous stretch of a coroutine: the code between  *)
(* two suspensions of the asyncio event loop runs without interleaving.    *)
(*                                                                         *)
(*   Spec      the program: votifast_async and its two worker pools        *)
(*   SpecQ     the Downloader / Decryptor objects under any caller of      *)
(*             their enqueue() and shutdown() methods                      *)
(*   SpecAuth  the credential of SpotifyApi under its two concurrent       *)
(*             users, the orchestrator task and the decryptor task         *)
(***************************************************************************)
EXTENDS Integers, Sequences, FiniteSets, TLC

\* ------------------------------------------------------------------ bounds
MaxItems  == 2      \* tracks in the requested batch / jobs a caller submits
NWorkers  == 2      \* download workers (n_workers)
MaxChunks == 1      \* chunks the body of a response arrives in
MaxTime   == 5      \* the clock stops after this many ticks
MaxSeq    == 3      \* re-authentication sequences that are started
MaxTTL    == 3      \* longest lifetime of an access token, in ticks
MaxCdns   == 3      \* candidate URLs handed to select_best_cdn

\* The clock counts in ticks; time.time() and the expiry are fractions of
\* a second, int() cuts the expiry down to whole seconds.
TicksPerSec == 2

Items   == 1..MaxItems
Tracks  == Items     \* every item of a batch may be a track of its own
Workers == 1..NWorkers

VARIABLES
  batch,        \* item -> track: the playlist / album listing (may repeat)
  nItems,       \* number of items of the batch
  interim,      \* track -> state of the interim file  <file_id>.bin
  final,        \* track -> does the final file  <artists> - <name>.m4a  exist
  mainPc,       \* where votifast_async is suspended
  idx,          \* the item votifast_async is working on
  dq,           \* Downloader.queue: pending DownloadJobs (item ids)
  dqShut,       \* Downloader.queue._is_shutdown
  dqUnf,        \* Downloader.queue._unfinished_tasks
  xq,           \* Decryptor.queue: pending DecryptionJobs (item ids)
  xqShut,       \* Decryptor.queue._is_shutdown
  xqUnf,        \* Decryptor.queue._unfinished_tasks
  wPc,          \* download worker -> where its loop is suspended
  wJob,         \* download worker -> the job it holds (0: none)
  wTotal,       \* download worker -> local  total  of download_file
  xPc,          \* where the decryptor loop is suspended
  xJob,         \* the job the decryptor loop holds (0: none)
  done,         \* item -> DownloadJob.done: <<state, value>>
  xdone,        \* item -> DecryptionJob.done: <<state, value>>
  chained,      \* download jobs whose done future has the enqueue callback
  cbPending,    \* done-callbacks scheduled with call_soon and not yet run
  dlv,          \* item -> times its DownloadJob was returned by queue.get()
  xdlv,         \* item -> times its DecryptionJob was returned by queue.get()
  dlAcc,        \* items whose DownloadJob was accepted by Downloader.enqueue
  xAcc,         \* items whose DecryptionJob was accepted by Decryptor.enqueue
  xVia,         \* item -> how its DecryptionJob reached Decryptor.enqueue
  rejected,     \* <<queue, item>> enqueue calls that raised QueueShutDown
  dlFailed,     \* items whose transfer raised
  decOutcome,   \* item -> how decrypt_file ended for its DecryptionJob
  unlinked,     \* items whose DecryptionJob removed the interim file
  now,          \* time.time(), in ticks
  session_auth_expire_time,   \* SpotifyApi.session_auth_expire_time, in ticks
  expFrom,      \* the sequence that set session_auth_expire_time
  authorization,  \* client.headers['Authorization']: its sequence, 0 absent
  clientToken,  \* client.headers['Client-Token']: its sequence, 0 absent
  aPc,          \* caller -> where it is suspended in _setup_authorization
  aSeq,         \* caller -> the sequence it is executing
  nSeq,         \* sequences started so far
  tokenExp,     \* caller -> accessTokenExpirationTimestampMs it received
  chk,          \* caller -> <<time, expiry, sequence>> its last check read
  req,          \* caller -> the last authenticated request it composed
  dAck,         \* item -> task_done() calls for its DownloadJob
  xAck,         \* item -> task_done() calls for its DecryptionJob
  joined,       \* the queues whose queue.join() has returned
  seen,         \* item -> what enqueue_track found on disk: <<interim, final>>
  cdns,         \* select_best_cdn: the candidate URLs, by host
  cdnPc,        \* select_best_cdn: "idle", "loop" or "returned"
  cdnPos,       \* select_best_cdn: candidates the loop has looked at
  slower_cdn,   \* select_best_cdn: its local slower_cdn
  faster_cdn,   \* select_best_cdn: its local faster_cdn
  selected      \* select_best_cdn: the value returned

pipeVars  == <<batch, nItems, interim, final, mainPc, idx>>
queueVars == <<dq, dqShut, dqUnf, xq, xqShut, xqUnf>>
workVars  == <<wPc, wJob, wTotal, xPc, xJob>>
futVars   == <<done, xdone, chained, cbPending>>
histVars  == <<dlv, xdlv, dlAcc, xAcc, xVia, rejected, dlFailed, decOutcome,
               unlinked>>
authVars  == <<now, session_auth_expire_time, expFrom, authorization,
               clientToken, aPc, aSeq, nSeq, tokenExp, chk, req>>
obsVars   == <<dAck, xAck, joined, seen>>
cdnVars   == <<cdns, cdnPc, cdnPos, slower_cdn, faster_cdn, selected>>
vars == <<pipeVars, queueVars, workVars, futVars, histVars, authVars,
          obsVars, cdnVars>>

\* The tasks that use the SpotifyApi object concurrently: votifast_async
\* (get_track, get_album, get_playlist) and the decryptor task
\* (get_widevine_key).
Callers == {"votifast_async", "decryptor"}
NoReq == [sent |-> FALSE, at |-> 0, exp |-> 0, tok |-> 0, ctok |-> 0,
          reauth |-> FALSE]

\* ----------------------------------------------------------- asyncio.Queue
\* A future: <<"pending", 0>>, <<"result", v>> or <<"exception", 0>>.
Future == <<"pending", 0>>

\* DownloadJob.__post_init__ / DecryptionJob.__post_init__
NewJobs == [j \in Items |-> Future]

InQueue(q, j) == \E k \in 1..Len(q) : q[k] = j

\* Deliveries of one job are counted: none, one, more than one.
Count(n) == IF n < 2 THEN n + 1 ELSE n

\* The three outcomes of  await queue.get()  for a worker that is not
\* suspended any more: a job, QueueShutDown, or suspension on a getter.
GetOutcome(q, shut) ==
  IF q # <<>> THEN "job" ELSE IF shut THEN "QueueShutDown" ELSE "wait"

\* ------------------------------------------------------------------- Init
\* Python's None.
None == "None"

\* No call of select_best_cdn is in progress.
CdnIdle ==
  /\ cdns = <<>> /\ cdnPc = "idle" /\ cdnPos = 0
  /\ slower_cdn = None /\ faster_cdn = None /\ selected = None

\* enqueue_track has not looked at the item's files yet.
NotSeen == <<"none", FALSE>>

TypeInit ==
  /\ dq = <<>> /\ dqShut = FALSE /\ dqUnf = 0
  /\ xq = <<>> /\ xqShut = FALSE /\ xqUnf = 0
  /\ wPc = [w \in Workers |-> "get"]
  /\ wJob = [w \in Workers |-> 0]
  /\ wTotal = [w \in Workers |-> 0]
  /\ xPc = "get" /\ xJob = 0
  /\ done = NewJobs /\ xdone = NewJobs
  /\ chained = {} /\ cbPending = {}
  /\ dlv = [j \in Items |-> 0] /\ xdlv = [j \in Items |-> 0]
  /\ dlAcc = {} /\ xAcc = {}
  /\ xVia = [j \in Items |-> "none"]
  /\ rejected = {}
  /\ dlFailed = {}
  /\ decOutcome = [j \in Items |-> "none"]
  /\ unlinked = {}
  /\ now = 0
  /\ expFrom = 1 /\ authorization = 1 /\ clientToken = 1
  /\ aPc = [c \in Callers |-> "idle"]
  /\ aSeq = [c \in Callers |-> 0]
  /\ nSeq = 1
  /\ tokenExp = [c \in Callers |-> 0]
  /\ chk = [c \in Callers |-> <<0, 0, 0>>]
  /\ req = [c \in Callers |-> NoReq]
  /\ dAck = [j \in Items |-> 0] /\ xAck = [j \in Items |-> 0]
  /\ joined = {}
  /\ seen = [j \in Items |-> NotSeen]

Storage0 == {"absent", "complete"}

\* The tracks of the first n items of listing b.
Listed(b, n) == {b[j] : j \in 1..n}

\* Tracks are numbered in the order in which the listing first names them.
Numbered(b, n) ==
  \A j \in 1..n : b[j] = 1 \/ \E k \in 1..(j - 1) : b[k] = b[j] - 1

\* votifast_async is started on a track (one item) or on a playlist or
\* album, which may list a track more than once; of every listed track
\* an earlier run may have left the interim file, the final file or both.
Init ==
  /\ TypeInit
  /\ CdnIdle
  /\ session_auth_expire_time = MaxTTL
  /\ nItems \in Items
  /\ batch \in [Items -> Tracks]
  /\ Numbered(batch, nItems)
  /\ \A j \in Items : j > nItems => batch[j] = 1
  /\ interim \in [Tracks -> Storage0]
  /\ final \in [Tracks -> BOOLEAN]
  /\ \A t \in Tracks \ Listed(batch, nItems) :
       interim[t] = "absent" /\ ~final[t]
  /\ mainPc = "initialize" /\ idx = 1

\* ------------------------------------------------------ queue operations
\* (mutant) put_nowait does not look at _is_shutdown.
PutAccepted_always(shut) == TRUE

\* Queue.put_nowait: raises QueueShutDown once shutdown() was called.
PutAccepted(shut) == ~shut

\* (mutant) get_nowait hands the head out and leaves it in the queue.
AfterGet_keep(q) == q

\* Queue.get_nowait: the queue after its head was handed to the caller.
AfterGet(q) == Tail(q)

\* Queue.shutdown(immediate=False): the pending jobs stay in the queue.
AfterShutdown(q) == q

\* (mutant) the callback is run without waiting for the future.
add_done_callback_now(fut, j) == {j}

\* Future.add_done_callback: the callbacks to schedule right away (a future
\* that is still pending only stores the callback).
add_done_callback(fut, j) == IF fut[1] # "pending" THEN {j} ELSE {}

\* (mutant) the failure is stored in job.done, which runs its callbacks.
DoneOnRaise_attach(fut) == <<"exception", 0>>

\* What download_file leaves in job.done when the transfer raises: the
\* exception leaves the coroutine, the future is not touched.
DoneOnRaise(fut) == fut

\* The callbacks that become due when job.done goes from old to new.
Fires(old, new, j) ==
  IF old[1] = "pending" /\ new[1] # "pending" THEN {j} \cap chained ELSE {}

\* Queue.put_nowait(job) on a queue with items q, _unfinished_tasks unf and
\* _is_shutdown shut: ok is FALSE when it raises QueueShutDown.
put_nowait(q, unf, shut, j) ==
  IF ~PutAccepted(shut)
    THEN [ok |-> FALSE, q |-> q, unf |-> unf]
    ELSE [ok |-> TRUE, q |-> Append(q, j), unf |-> unf + 1]

\* (mutant) the worker is resumed before the callbacks already scheduled.
ResumesAfterCallbacks_any(j, pending) == TRUE

\* The worker that called  job.done.set_result  suspends in the exit of its
\* `async with` (the file is closed in an executor); the event loop runs
\* the callbacks that set_result scheduled before it resumes the worker.
ResumesAfterCallbacks(j, pending) == j \notin pending

\* (mutant) task_done counts the job twice.
task_done_twice(unf) == unf - 2

\* Queue.task_done: _unfinished_tasks after the call (the caller has seen
\* that it is positive, otherwise task_done raises ValueError).
task_done(unf) == unf - 1

\* Queue.join: does it return without waiting?
JoinReturns(unf) == unf = 0

\* No call of put_nowait.
NoPut(q, unf) == [ok |-> TRUE, q |-> q, unf |-> unf]

\* ------------------------------------------------------- download workers
\* The rest of a stretch of _downloader_loop that reaches  queue.get() :
\* the head job and download_file's  aiofiles.open , QueueShutDown and the
\* break, or suspension on a getter.  q is the queue as the stretch finds it.
DlLoop(w) ==
  CASE GetOutcome(dq, dqShut) = "job" ->
         /\ wJob' = [wJob EXCEPT ![w] = Head(dq)]
         /\ dq' = AfterGet(dq)
         /\ dlv' = [dlv EXCEPT ![Head(dq)] = Count(@)]
         /\ wPc' = [wPc EXCEPT ![w] = "open"]
    [] GetOutcome(dq, dqShut) = "QueueShutDown" ->
         /\ wPc' = [wPc EXCEPT ![w] = "exited"]
         /\ wJob' = [wJob EXCEPT ![w] = 0]
         /\ UNCHANGED <<dq, dlv>>
    [] OTHER ->
         /\ wPc' = [wPc EXCEPT ![w] = "get"]
         /\ wJob' = [wJob EXCEPT ![w] = 0]
         /\ UNCHANGED <<dq, dlv>>

\* A worker suspended in  await self.queue.get()  is resumed.
downloader_loop_get(w) ==
  /\ wPc[w] = "get"
  /\ GetOutcome(dq, dqShut) # "wait"
  /\ DlLoop(w)
  /\ wTotal' = [wTotal EXCEPT ![w] = 0]
  /\ UNCHANGED authVars
  /\ UNCHANGED cdnVars
  /\ UNCHANGED obsVars
  /\ UNCHANGED <<pipeVars, dqShut, dqUnf, xq, xqShut, xqUnf, xPc, xJob,
                 futVars, xdlv, dlAcc, xAcc, xVia, rejected, dlFailed,
                 decOutcome, unlinked>>

\* download_file:  aiofiles.open(job.output, 'wb')  has created or truncated
\* the file; the worker then waits for the response of client.stream.
download_open(w) ==
  /\ wPc[w] = "open"
  /\ interim' = [interim EXCEPT ![batch[wJob[w]]] = "writing"]
  /\ wPc' = [wPc EXCEPT ![w] = "xfer"]
  /\ wTotal' = [wTotal EXCEPT ![w] = 0]
  /\ UNCHANGED authVars
  /\ UNCHANGED cdnVars
  /\ UNCHANGED obsVars
  /\ UNCHANGED <<batch, nItems, final, mainPc, idx, queueVars, wJob, xPc,
                 xJob, futVars, histVars>>

\* download_file: one chunk of r.aiter_bytes() is written, total += n.
download_chunk(w) ==
  /\ wPc[w] = "xfer"
  /\ wTotal[w] < MaxChunks
  /\ wTotal' = [wTotal EXCEPT ![w] = @ + 1]
  /\ UNCHANGED authVars
  /\ UNCHANGED cdnVars
  /\ UNCHANGED obsVars
  /\ UNCHANGED <<pipeVars, queueVars, wPc, wJob, xPc, xJob, futVars,
                 histVars>>

\* download_file: the body is exhausted, job.done.set_result(total); the
\* worker then waits in the  async with  exit for the file to be closed.
download_end(w) ==
  LET j == wJob[w]
      new == <<"result", wTotal[w]>> IN
  /\ wPc[w] = "xfer"
  /\ wTotal[w] = MaxChunks
  /\ done' = [done EXCEPT ![j] = new]
  /\ cbPending' = cbPending \cup Fires(done[j], new, j)
  /\ wPc' = [wPc EXCEPT ![w] = "close"]
  /\ UNCHANGED authVars
  /\ UNCHANGED cdnVars
  /\ UNCHANGED obsVars
  /\ UNCHANGED <<pipeVars, queueVars, wJob, wTotal, xPc, xJob, xdone,
                 chained, histVars>>

\* download_file: the request or a read of the body raises.  The  async
\* with  closes the file, the exception leaves download_file and
\* _downloader_loop, which has no handler: the worker task ends with it.
download_raise(w) ==
  LET j == wJob[w]
      new == DoneOnRaise(done[j]) IN
  /\ wPc[w] = "xfer"
  /\ interim' = [interim EXCEPT ![batch[j]] = "partial"]
  /\ done' = [done EXCEPT ![j] = new]
  /\ cbPending' = cbPending \cup Fires(done[j], new, j)
  /\ dlFailed' = dlFailed \cup {j}
  /\ wPc' = [wPc EXCEPT ![w] = "crashed"]
  /\ UNCHANGED authVars
  /\ UNCHANGED cdnVars
  /\ UNCHANGED obsVars
  /\ UNCHANGED <<batch, nItems, final, mainPc, idx, queueVars, wJob, wTotal,
                 xPc, xJob, xdone, chained, dlv, xdlv, dlAcc, xAcc, xVia,
                 rejected, decOutcome, unlinked>>

\* download_file returns: the file is closed (flushed); back in the loop,
\* queue.task_done() and the next queue.get().  The done-callbacks were
\* scheduled with call_soon by set_result and have run by now: the close
\* is handed to a thread and its completion is queued behind them.
download_close(w) ==
  LET j == wJob[w] IN
  /\ wPc[w] = "close"
  /\ ResumesAfterCallbacks(j, cbPending)
  /\ interim' = [interim EXCEPT ![batch[j]] = "complete"]
  /\ IF dqUnf <= 0
       THEN \* task_done() called too many times: ValueError
            /\ wPc' = [wPc EXCEPT ![w] = "crashed"]
            /\ UNCHANGED <<dq, dqUnf, dlv, wJob, dAck>>
       ELSE /\ dqUnf' = task_done(dqUnf)
            /\ dAck' = [dAck EXCEPT ![j] = Count(@)]
            /\ DlLoop(w)
  /\ wTotal' = [wTotal EXCEPT ![w] = 0]
  /\ UNCHANGED authVars
  /\ UNCHANGED cdnVars
  /\ UNCHANGED <<xAck, joined, seen>>
  /\ UNCHANGED <<batch, nItems, final, mainPc, idx, dqShut, xq, xqShut,
                 xqUnf, xPc, xJob, futVars, xdlv, dlAcc, xAcc, xVia,
                 rejected, dlFailed, decOutcome, unlinked>>

\* The callback  lambda _: decryptor.enqueue(decrypt_job)  registered by
\* enqueue_track, run by the event loop.
run_callback(j) ==
  /\ j \in cbPending
  /\ cbPending' = cbPending \ {j}
  /\ LET x == put_nowait(xq, xqUnf, xqShut, j) IN
       /\ xq' = x.q
       /\ xqUnf' = x.unf
       /\ xAcc' = IF x.ok THEN xAcc \cup {j} ELSE xAcc
       /\ xVia' = IF x.ok THEN [xVia EXCEPT ![j] = "callback"] ELSE xVia
       /\ rejected' = IF x.ok THEN rejected
                              ELSE rejected \cup {<<"decrypt", j>>}
  /\ UNCHANGED authVars
  /\ UNCHANGED cdnVars
  /\ UNCHANGED obsVars
  /\ UNCHANGED <<pipeVars, dq, dqShut, dqUnf, xqShut, workVars, done, xdone,
                 chained, dlv, xdlv, dlAcc, dlFailed, decOutcome, unlinked>>

\* -------------------------------------------------------- decrypt worker
\* The rest of a stretch of _decryptor_loop that reaches  queue.get() .
XLoop ==
  CASE GetOutcome(xq, xqShut) = "job" ->
         /\ xJob' = Head(xq)
         /\ xq' = AfterGet(xq)
         /\ xdlv' = [xdlv EXCEPT ![Head(xq)] = Count(@)]
         /\ xPc' = "key"
    [] GetOutcome(xq, xqShut) = "QueueShutDown" ->
         /\ xPc' = "exited" /\ xJob' = 0
         /\ UNCHANGED <<xq, xdlv>>
    [] OTHER ->
         /\ xPc' = "get" /\ xJob' = 0
         /\ UNCHANGED <<xq, xdlv>>

\* The decryptor suspended in  await self.queue.get()  is resumed; with a
\* job it enters decrypt_file and waits in sp.get_widevine_key.
decryptor_loop_get ==
  /\ xPc = "get"
  /\ GetOutcome(xq, xqShut) # "wait"
  /\ XLoop
  /\ UNCHANGED authVars
  /\ UNCHANGED cdnVars
  /\ UNCHANGED obsVars
  /\ UNCHANGED <<pipeVars, dq, dqShut, dqUnf, xqShut, xqUnf, wPc, wJob,
                 wTotal, futVars, dlv, dlAcc, xAcc, xVia, rejected, dlFailed,
                 decOutcome, unlinked>>

\* decrypt_file: get_widevine_key returned the key; ffmpeg is started and
\* the worker waits in communicate().
decrypt_key ==
  /\ xPc = "key"
  /\ xPc' = "tool"
  /\ UNCHANGED authVars
  /\ UNCHANGED cdnVars
  /\ UNCHANGED obsVars
  /\ UNCHANGED <<pipeVars, queueVars, wPc, wJob, wTotal, xJob, futVars,
                 histVars>>

\* decrypt_file: get_widevine_key raises (raise_for_status, a missing
\* field, no CONTENT key).  _decryptor_loop has no handler.
decrypt_key_raise ==
  /\ xPc = "key"
  /\ xPc' = "crashed"
  /\ decOutcome' = [decOutcome EXCEPT ![xJob] = "keyfail"]
  /\ UNCHANGED authVars
  /\ UNCHANGED cdnVars
  /\ UNCHANGED obsVars
  /\ UNCHANGED <<pipeVars, queueVars, wPc, wJob, wTotal, xJob, futVars,
                 dlv, xdlv, dlAcc, xAcc, xVia, rejected, dlFailed, unlinked>>

\* decrypt_file after communicate(): is job.encrypted unlinked when ffmpeg
\* ended with this exit code?  The exit code is not looked at.
UnlinkAfter(code) == TRUE

\* decrypt_file: ffmpeg ended with exit code  code  (0 only if it had an
\* input file), then job.encrypted.unlink(), which raises FileNotFoundError
\* on a missing file; back in the loop, task_done() and the next get().
decrypt_tool(code) ==
  LET j == xJob
      t == batch[xJob]
      gone == interim[t] = "absent" IN
  /\ xPc = "tool"
  /\ code = 0 => ~gone
  /\ final' = [final EXCEPT ![t] = @ \/ code = 0]
  /\ decOutcome' = [decOutcome EXCEPT ![j] = IF code = 0 THEN "ok"
                                                          ELSE "toolfail"]
  /\ IF UnlinkAfter(code) /\ gone
       THEN /\ xPc' = "crashed"
            /\ UNCHANGED <<interim, unlinked, xq, xqUnf, xdlv, xJob, xAck>>
       ELSE /\ IF UnlinkAfter(code)
                 THEN /\ interim' = [interim EXCEPT ![t] = "absent"]
                      /\ unlinked' = unlinked \cup {j}
                 ELSE UNCHANGED <<interim, unlinked>>
            /\ IF xqUnf <= 0
                 THEN /\ xPc' = "crashed"
                      /\ UNCHANGED <<xq, xqUnf, xdlv, xJob, xAck>>
                 ELSE /\ xqUnf' = task_done(xqUnf)
                      /\ xAck' = [xAck EXCEPT ![j] = Count(@)]
                      /\ XLoop
  /\ UNCHANGED authVars
  /\ UNCHANGED cdnVars
  /\ UNCHANGED <<dAck, joined, seen>>
  /\ UNCHANGED <<batch, nItems, mainPc, idx, dq, dqShut, dqUnf, xqShut, wPc,
                 wJob, wTotal, futVars, dlv, dlAcc, xAcc, xVia, rejected,
                 dlFailed>>

\* ----------------------------------------------------------- orchestrator
\* enqueue_track: the resume check on the two paths of a track.
\* (mutant) the download branch does not look for the interim file.
NeedsDownload_nointerim(t) == ~final[t]

\* not interim_path.exists() and not final_path.exists()
NeedsDownload(t) == interim[t] = "absent" /\ ~final[t]

\* (mutant) the decrypt branch does not look for the final file.
NeedsDecrypt_nofinal(t) == interim[t] # "absent"

\* interim_path.exists() and not final_path.exists()
NeedsDecrypt(t) == interim[t] # "absent" /\ ~final[t]

Branch(t) ==
  IF NeedsDownload(t) THEN "download"
  ELSE IF NeedsDecrypt(t) THEN "decrypt"
  ELSE "skip"

Stopped == {"exited", "crashed", "cancelled"}

\* votifast_async:  async with sp  (SpotifyApi.initialize) and, for a
\* playlist or an album, the listing; then the first enqueue_track waits
\* in sp.get_track.
initialize ==
  /\ mainPc = "initialize"
  /\ mainPc' = "get_track"
  /\ UNCHANGED authVars
  /\ UNCHANGED cdnVars
  /\ UNCHANGED obsVars
  /\ UNCHANGED <<batch, nItems, interim, final, idx, queueVars, workVars,
                 futVars, histVars>>

\* A request of initialize, get_playlist, get_album or get_track raises:
\* the exception leaves votifast_async.
request_raise ==
  /\ mainPc \in {"initialize", "get_track"}
  /\ mainPc' = "raised"
  /\ UNCHANGED authVars
  /\ UNCHANGED cdnVars
  /\ UNCHANGED obsVars
  /\ UNCHANGED <<batch, nItems, interim, final, idx, queueVars, workVars,
                 futVars, histVars>>

\* enqueue_track after sp.get_track returned, up to the next suspension:
\* the next item's get_track, or after the last item downloader.shutdown()
\* and the queue.join() of downloader.join().
enqueue_track ==
  LET i == idx
      br == Branch(batch[i])
      d == IF br = "download" THEN put_nowait(dq, dqUnf, dqShut, i)
                              ELSE NoPut(dq, dqUnf)
      x == IF br = "decrypt" THEN put_nowait(xq, xqUnf, xqShut, i)
                             ELSE NoPut(xq, xqUnf) IN
  /\ mainPc = "get_track"
  /\ chained' = IF br = "download" THEN chained \cup {i} ELSE chained
  /\ cbPending' = IF br = "download"
                    THEN cbPending \cup add_done_callback(done[i], i)
                    ELSE cbPending
  /\ xq' = x.q /\ xqUnf' = x.unf /\ dqUnf' = d.unf
  /\ dlAcc' = IF br = "download" /\ d.ok THEN dlAcc \cup {i} ELSE dlAcc
  /\ xAcc' = IF br = "decrypt" /\ x.ok THEN xAcc \cup {i} ELSE xAcc
  /\ xVia' = IF br = "decrypt" /\ x.ok THEN [xVia EXCEPT ![i] = "direct"]
                                       ELSE xVia
  /\ rejected' = rejected
                   \cup (IF d.ok THEN {} ELSE {<<"download", i>>})
                   \cup (IF x.ok THEN {} ELSE {<<"decrypt", i>>})
  /\ IF ~d.ok \/ ~x.ok
       THEN /\ mainPc' = "raised"
            /\ dq' = d.q
            /\ UNCHANGED <<idx, dqShut, joined>>
       ELSE IF i < nItems
         THEN /\ idx' = i + 1
              /\ mainPc' = "get_track"
              /\ dq' = d.q
              /\ UNCHANGED <<dqShut, joined>>
         ELSE /\ dq' = AfterShutdown(d.q)
              /\ dqShut' = TRUE
              /\ mainPc' = IF JoinReturns(d.unf) THEN "dl_gather"
                                                 ELSE "dl_qjoin"
              /\ joined' = IF JoinReturns(d.unf)
                             THEN joined \cup {"download"} ELSE joined
              /\ UNCHANGED idx
  /\ seen' = [seen EXCEPT ![i] = <<interim[batch[i]], final[batch[i]]>>]
  /\ UNCHANGED authVars
  /\ UNCHANGED cdnVars
  /\ UNCHANGED <<dAck, xAck>>
  /\ UNCHANGED <<batch, nItems, interim, final, xqShut, workVars, done,
                 xdone, dlv, xdlv, dlFailed, decOutcome, unlinked>>

\* Downloader.join: queue.join() returns, gather(*self.tasks) is awaited.
downloader_join_queue ==
  /\ mainPc = "dl_qjoin"
  /\ JoinReturns(dqUnf)
  /\ mainPc' = "dl_gather"
  /\ joined' = joined \cup {"download"}
  /\ UNCHANGED authVars
  /\ UNCHANGED cdnVars
  /\ UNCHANGED <<dAck, xAck, seen>>
  /\ UNCHANGED <<batch, nItems, interim, final, idx, queueVars, workVars,
                 futVars, histVars>>

\* Downloader.join: gather(..., return_exceptions=True) returns once every
\* worker task has ended; then decryptor.shutdown() and the queue.join()
\* of decryptor.join().
downloader_join_tasks ==
  /\ mainPc = "dl_gather"
  /\ \A w \in Workers : wPc[w] \in Stopped
  /\ xqShut' = TRUE
  /\ xq' = AfterShutdown(xq)
  /\ mainPc' = IF JoinReturns(xqUnf) THEN "x_task" ELSE "x_qjoin"
  /\ joined' = IF JoinReturns(xqUnf) THEN joined \cup {"decrypt"} ELSE joined
  /\ UNCHANGED authVars
  /\ UNCHANGED cdnVars
  /\ UNCHANGED <<dAck, xAck, seen>>
  /\ UNCHANGED <<batch, nItems, interim, final, idx, dq, dqShut, dqUnf,
                 xqUnf, workVars, futVars, histVars>>

\* Decryptor.join: queue.join() returns,  await self.task  is next.
decryptor_join_queue ==
  /\ mainPc = "x_qjoin"
  /\ JoinReturns(xqUnf)
  /\ mainPc' = "x_task"
  /\ joined' = joined \cup {"decrypt"}
  /\ UNCHANGED authVars
  /\ UNCHANGED cdnVars
  /\ UNCHANGED <<dAck, xAck, seen>>
  /\ UNCHANGED <<batch, nItems, interim, final, idx, queueVars, workVars,
                 futVars, histVars>>

\* Decryptor.join:  return await self.task  gives the task's result or
\* raises the exception the task ended with.
decryptor_join_task ==
  /\ mainPc = "x_task"
  /\ xPc \in Stopped
  /\ mainPc' = IF xPc = "exited" THEN "finished" ELSE "raised"
  /\ UNCHANGED authVars
  /\ UNCHANGED cdnVars
  /\ UNCHANGED obsVars
  /\ UNCHANGED <<batch, nItems, interim, final, idx, queueVars, workVars,
                 futVars, histVars>>

\* asyncio.run after votifast_async raised: the remaining tasks are
\* cancelled and the loop is closed.  A cancelled download_file leaves its
\* file as far as it was written.
cancel_all_tasks ==
  /\ mainPc = "raised"
  /\ mainPc' = "closed"
  /\ wPc' = [w \in Workers |->
               IF wPc[w] \in Stopped THEN wPc[w] ELSE "cancelled"]
  /\ xPc' = IF xPc \in Stopped THEN xPc ELSE "cancelled"
  /\ interim' = [t \in Tracks |->
       IF \E w \in Workers : wPc[w] = "xfer" /\ batch[wJob[w]] = t
         THEN "partial"
       ELSE IF \E w \in Workers : wPc[w] = "close" /\ batch[wJob[w]] = t
         THEN "complete"
       ELSE interim[t]]
  /\ UNCHANGED authVars
  /\ UNCHANGED cdnVars
  /\ UNCHANGED obsVars
  /\ UNCHANGED <<batch, nItems, final, idx, queueVars, wJob, wTotal, xJob,
                 futVars, histVars>>

Next ==
  \/ initialize
  \/ request_raise
  \/ enqueue_track
  \/ downloader_join_queue
  \/ downloader_join_tasks
  \/ decryptor_join_queue
  \/ decryptor_join_task
  \/ cancel_all_tasks
  \/ \E w \in Workers : downloader_loop_get(w)
  \/ \E w \in Workers : download_open(w)
  \/ \E w \in Workers : download_chunk(w)
  \/ \E w \in Workers : download_end(w)
  \/ \E w \in Workers : download_raise(w)
  \/ \E w \in Workers : download_close(w)
  \/ \E j \in Items : run_callback(j)
  \/ decryptor_loop_get
  \/ decrypt_key
  \/ decrypt_key_raise
  \/ \E code \in {0, 1} : decrypt_tool(code)

Spec == Init /\ [][Next]_vars

\* ------------------------------------------- the managers under any caller
\* A Downloader or a Decryptor right after construction, used by a caller
\* that submits each job once and may shut the queue down at any time.
\* The jobs of a Downloader write to paths of their own; of the files the
\* jobs of a Decryptor are to read, any may be missing.
InitQ ==
  /\ TypeInit
  /\ CdnIdle
  /\ session_auth_expire_time = MaxTTL
  /\ nItems = MaxItems
  /\ batch = [j \in Items |-> j]
  /\ mainPc \in {"Downloader", "Decryptor"}
  /\ interim \in [Tracks -> Storage0]
  /\ mainPc = "Downloader" => interim = [t \in Tracks |-> "absent"]
  /\ final = [t \in Tracks |-> FALSE]
  /\ idx = 1

\* The jobs the caller has passed to an enqueue() of the named manager.
Submitted(m) ==
  (IF m = "download" THEN dlAcc ELSE xAcc)
    \cup {j \in Items : <<m, j>> \in rejected}

\* The caller's jobs are numbered in the order it submits them.
IsNextJob(m, j) == j \notin Submitted(m) /\ \A k \in 1..(j - 1) : k \in Submitted(m)

\* Downloader.enqueue(job)
Downloader_enqueue(j) ==
  LET d == put_nowait(dq, dqUnf, dqShut, j) IN
  /\ mainPc = "Downloader"
  /\ IsNextJob("download", j)
  /\ dq' = d.q /\ dqUnf' = d.unf
  /\ dlAcc' = IF d.ok THEN dlAcc \cup {j} ELSE dlAcc
  /\ rejected' = IF d.ok THEN rejected ELSE rejected \cup {<<"download", j>>}
  /\ UNCHANGED authVars
  /\ UNCHANGED cdnVars
  /\ UNCHANGED obsVars
  /\ UNCHANGED <<pipeVars, dqShut, xq, xqShut, xqUnf, workVars, futVars,
                 dlv, xdlv, xAcc, xVia, dlFailed, decOutcome, unlinked>>

\* Decryptor.enqueue(job)
Decryptor_enqueue(j) ==
  LET x == put_nowait(xq, xqUnf, xqShut, j) IN
  /\ mainPc = "Decryptor"
  /\ IsNextJob("decrypt", j)
  /\ xq' = x.q /\ xqUnf' = x.unf
  /\ xAcc' = IF x.ok THEN xAcc \cup {j} ELSE xAcc
  /\ xVia' = IF x.ok THEN [xVia EXCEPT ![j] = "direct"] ELSE xVia
  /\ rejected' = IF x.ok THEN rejected ELSE rejected \cup {<<"decrypt", j>>}
  /\ UNCHANGED authVars
  /\ UNCHANGED cdnVars
  /\ UNCHANGED obsVars
  /\ UNCHANGED <<pipeVars, dq, dqShut, dqUnf, xqShut, workVars, futVars,
                 dlv, xdlv, dlAcc, dlFailed, decOutcome, unlinked>>

\* Downloader.shutdown()
Downloader_shutdown ==
  /\ mainPc = "Downloader"
  /\ dqShut' = TRUE
  /\ dq' = AfterShutdown(dq)
  /\ UNCHANGED authVars
  /\ UNCHANGED cdnVars
  /\ UNCHANGED obsVars
  /\ UNCHANGED <<pipeVars, dqUnf, xq, xqShut, xqUnf, workVars, futVars,
                 histVars>>

\* Decryptor.shutdown()
Decryptor_shutdown ==
  /\ mainPc = "Decryptor"
  /\ xqShut' = TRUE
  /\ xq' = AfterShutdown(xq)
  /\ UNCHANGED authVars
  /\ UNCHANGED cdnVars
  /\ UNCHANGED obsVars
  /\ UNCHANGED <<pipeVars, dq, dqShut, dqUnf, xqUnf, workVars, futVars,
                 histVars>>

NextQ ==
  \/ \E j \in Items : Downloader_enqueue(j)
  \/ \E j \in Items : Decryptor_enqueue(j)
  \/ Downloader_shutdown
  \/ Decryptor_shutdown
  \/ \E w \in Workers : downloader_loop_get(w)
  \/ \E w \in Workers : download_open(w)
  \/ \E w \in Workers : download_chunk(w)
  \/ \E w \in Workers : download_end(w)
  \/ \E w \in Workers : download_raise(w)
  \/ \E w \in Workers : download_close(w)
  \/ decryptor_loop_get
  \/ decrypt_key
  \/ decrypt_key_raise
  \/ \E code \in {0, 1} : decrypt_tool(code)

SpecQ == InitQ /\ [][NextQ]_vars

\* ------------------------------------------------- the session credential
\* int(self.session_auth_expire_time): the expiry cut down to whole seconds.
int(t) == (t \div TicksPerSec) * TicksPerSec

\* (mutant) the check compares with the expiry itself and lets the instant
\* of expiry pass.
Expired_late(t, exp) == t > exp

\* _refresh_session_auth:  if timestamp_now < timestamp_session_expire:
\* return ; otherwise the credential is renewed.
Expired(t, exp) == ~(t < int(exp))

\* The request a caller composes from the client's headers at this instant.
Compose(tok, ctok, exp, re) ==
  [sent |-> TRUE, at |-> now, exp |-> exp, tok |-> tok, ctok |-> ctok,
   reauth |-> re]

frozen == <<pipeVars, queueVars, workVars, futVars, histVars, obsVars,
            cdnVars>>

\* SpotifyApi after initialize(): the first sequence has installed the
\* credential; its expiry is some fraction of a second ahead.
InitAuth ==
  /\ TypeInit
  /\ CdnIdle
  /\ session_auth_expire_time \in 1..MaxTTL
  /\ nItems = MaxItems
  /\ batch = [j \in Items |-> 1]
  /\ interim = [t \in Tracks |-> "absent"]
  /\ final = [t \in Tracks |-> FALSE]
  /\ mainPc = "get_track" /\ idx = 1

\* An authenticated operation (get_track, _get_stream_urls, get_album,
\* get_playlist, get_widevine_key) calls _refresh_session_auth and finds the
\* credential current: it returns, and the request is composed.
refresh_session_auth_current(c) ==
  /\ aPc[c] = "idle"
  /\ ~Expired(now, session_auth_expire_time)
  /\ chk' = [chk EXCEPT ![c] = <<now, session_auth_expire_time, expFrom>>]
  /\ req' = [req EXCEPT ![c] = Compose(authorization, clientToken,
                                       session_auth_expire_time, FALSE)]
  /\ UNCHANGED <<now, session_auth_expire_time, expFrom, authorization,
                 clientToken, aPc, aSeq, nSeq, tokenExp>>
  /\ UNCHANGED frozen

\* _refresh_session_auth finds the credential expired and enters
\* _setup_authorization: both headers are deleted, the server time is
\* requested.
refresh_session_auth_expired(c) ==
  /\ aPc[c] = "idle"
  /\ Expired(now, session_auth_expire_time)
  /\ nSeq < MaxSeq
  /\ chk' = [chk EXCEPT ![c] = <<now, session_auth_expire_time, expFrom>>]
  /\ authorization' = 0
  /\ clientToken' = 0
  /\ nSeq' = nSeq + 1
  /\ aSeq' = [aSeq EXCEPT ![c] = nSeq + 1]
  /\ aPc' = [aPc EXCEPT ![c] = "server_time"]
  /\ req' = [req EXCEPT ![c] = NoReq]
  /\ UNCHANGED <<now, session_auth_expire_time, expFrom, tokenExp>>
  /\ UNCHANGED frozen

\* _setup_authorization: the server time arrived, the TOTP is derived and
\* the session token is requested.
setup_server_time(c) ==
  /\ aPc[c] = "server_time"
  /\ aPc' = [aPc EXCEPT ![c] = "session_token"]
  /\ UNCHANGED <<now, session_auth_expire_time, expFrom, authorization,
                 clientToken, aSeq, nSeq, tokenExp, chk, req>>
  /\ UNCHANGED frozen

\* _setup_authorization: the access token and its expiry arrived, the
\* client token is requested.
setup_session_token(c, ttl) ==
  /\ aPc[c] = "session_token"
  /\ tokenExp' = [tokenExp EXCEPT ![c] = now + ttl]
  /\ aPc' = [aPc EXCEPT ![c] = "client_token"]
  /\ UNCHANGED <<now, session_auth_expire_time, expFrom, authorization,
                 clientToken, aSeq, nSeq, chk, req>>
  /\ UNCHANGED frozen

\* _setup_authorization: the client token arrived; headers.update and the
\* assignment of session_auth_expire_time install the credential, the
\* operation that asked for it composes its request.
setup_client_token(c) ==
  /\ aPc[c] = "client_token"
  /\ authorization' = aSeq[c]
  /\ clientToken' = aSeq[c]
  /\ session_auth_expire_time' = tokenExp[c]
  /\ expFrom' = aSeq[c]
  /\ req' = [req EXCEPT ![c] = Compose(aSeq[c], aSeq[c], tokenExp[c], TRUE)]
  /\ aPc' = [aPc EXCEPT ![c] = "idle"]
  /\ aSeq' = [aSeq EXCEPT ![c] = 0]
  /\ tokenExp' = [tokenExp EXCEPT ![c] = 0]
  /\ UNCHANGED <<now, nSeq, chk>>
  /\ UNCHANGED frozen

\* _setup_authorization: raise_for_status or the ValueError of a missing
\* token; the exception ends the operation, no request is composed.
setup_raise(c) ==
  /\ aPc[c] \in {"server_time", "session_token", "client_token"}
  /\ aPc' = [aPc EXCEPT ![c] = "idle"]
  /\ aSeq' = [aSeq EXCEPT ![c] = 0]
  /\ tokenExp' = [tokenExp EXCEPT ![c] = 0]
  /\ req' = [req EXCEPT ![c] = NoReq]
  /\ UNCHANGED <<now, session_auth_expire_time, expFrom, authorization,
                 clientToken, nSeq, chk>>
  /\ UNCHANGED frozen

\* The clock advances.  An access token outlives the client-token exchange
\* that follows its issue: the clock does not reach the expiry of a token
\* that is waiting to be installed.
tick ==
  /\ now < MaxTime
  /\ \A c \in Callers : aPc[c] = "client_token" => now + 1 < tokenExp[c]
  /\ now' = now + 1
  /\ UNCHANGED <<session_auth_expire_time, expFrom, authorization,
                 clientToken, aPc, aSeq, nSeq, tokenExp, chk, req>>
  /\ UNCHANGED frozen

NextAuth ==
  \/ \E c \in Callers : refresh_session_auth_current(c)
  \/ \E c \in Callers : refresh_session_auth_expired(c)
  \/ \E c \in Callers : setup_server_time(c)
  \/ \E c \in Callers : \E ttl \in 1..MaxTTL : setup_session_token(c, ttl)
  \/ \E c \in Callers : setup_client_token(c)
  \/ \E c \in Callers : setup_raise(c)
  \/ tick

SpecAuth == InitAuth /\ [][NextAuth]_vars

\* ----------------------------------------------------------------- claims
Holders(j) == {w \in Workers : wJob[w] = j}

\* C1: on either queue, whatever the interleaving of enqueue calls and
\* worker dequeues, a job is handed out by queue.get() at most once and is
\* held by at most one worker, and a job the queue accepted is never
\* dropped: it is either still pending in the queue or was handed to a
\* worker.
C1_DeliveredAtMostOnceNeverLost ==
  \A j \in Items :
    /\ dlv[j] <= 1 /\ xdlv[j] <= 1
    /\ Cardinality(Holders(j)) <= 1
    /\ j \in dlAcc => (IF InQueue(dq, j) THEN dlv[j] = 0 ELSE dlv[j] = 1)
    /\ j \in xAcc => (IF InQueue(xq, j) THEN xdlv[j] = 0 ELSE xdlv[j] = 1)
    /\ j \notin dlAcc => dlv[j] = 0
    /\ j \notin xAcc => xdlv[j] = 0

\* Two download workers, woken for two jobs enqueued one after the other,
\* each hold a job of their own.
C1_Witness ==
  /\ wJob[1] # 0 /\ wJob[2] # 0 /\ wJob[1] # wJob[2]
  /\ dlv[wJob[1]] = 1 /\ dlv[wJob[2]] = 1
  /\ dlAcc = {1, 2}

\* C2: for an item that takes the download path (its DownloadJob carries
\* the chained callback), the DecryptionJob enters the decrypt queue only
\* in a step that runs the callback scheduled by the fulfilment of the
\* download's done future, so never while that future is pending.
C2_DecryptEnqueuedByFulfilment ==
  [][\A j \in Items :
       /\ (j \in chained' /\ j \in xAcc') => done'[j][1] # "pending"
       /\ (j \in chained /\ j \in xAcc' /\ j \notin xAcc) =>
            /\ done[j][1] # "pending"
            /\ j \in cbPending /\ j \notin cbPending'
            /\ xVia'[j] = "callback"
            /\ xq' = Append(xq, j)]_vars

\* A downloaded item's DecryptionJob is in the decrypt queue, put there by
\* the callback of its fulfilled DownloadJob.
C2_Witness ==
  \E j \in Items :
    /\ j \in chained /\ InQueue(xq, j) /\ xVia[j] = "callback"
    /\ done[j] = <<"result", MaxChunks>>

\* C3: a failed job does not end the worker loop that ran it: no worker
\* task ends with an exception, and every failed job carries its failure
\* in its done future.
C3_FailureKeepsWorkerRunning ==
  /\ \A w \in Workers : wPc[w] # "crashed"
  /\ xPc # "crashed"
  /\ \A j \in dlFailed : done[j][1] = "exception"
  /\ \A j \in Items :
       decOutcome[j] \in {"keyfail", "toolfail"} => xdone[j][1] = "exception"

C5_InterimRemovedIffDecrypted ==
  \A j \in Items :
    decOutcome[j] # "none" => (j \in unlinked <=> decOutcome[j] = "ok")

\* C9: an enqueue() on a queue that was shut down raises and leaves the
\* pending jobs and _unfinished_tasks as they were; an enqueue() on an open
\* queue appends the job at the tail and adds one to _unfinished_tasks.
C9_EnqueueRespectsShutdown ==
  [][\A j \in Items :
       /\ (j \in Submitted("download")' /\ j \notin Submitted("download")) =>
            IF dqShut
              THEN /\ <<"download", j>> \in rejected'
                   /\ dq' = dq /\ dqUnf' = dqUnf
              ELSE /\ <<"download", j>> \notin rejected'
                   /\ dq' = Append(dq, j) /\ dqUnf' = dqUnf + 1
       /\ (j \in Submitted("decrypt")' /\ j \notin Submitted("decrypt")) =>
            IF xqShut
              THEN /\ <<"decrypt", j>> \in rejected'
                   /\ xq' = xq /\ xqUnf' = xqUnf
              ELSE /\ <<"decrypt", j>> \notin rejected'
                   /\ xq' = Append(xq, j) /\ xqUnf' = xqUnf + 1]_vars

\* A queue accepted a first job, was shut down with it pending, and then
\* refused a second one.
C9_Witness ==
  \/ /\ dqShut /\ 1 \in dlAcc /\ <<"download", 2>> \in rejected
     /\ dq = <<1>> /\ dqUnf = 1
  \/ /\ xqShut /\ 1 \in xAcc /\ <<"decrypt", 2>> \in rejected
     /\ xq = <<1>> /\ xqUnf = 1

\* C10: a job that was accepted by a queue is delivered to a worker: the
\* workers of a pool do not all stop while a job is pending in the queue.
C10_PendingJobsAreDelivered ==
  /\ (\A w \in Workers : wPc[w] \in Stopped) => dq = <<>>
  /\ xPc \in Stopped => xq = <<>>

InFlight(c) == aPc[c] # "idle"

\* C6: two callers that found the same credential expired do not both
\* execute a re-authentication sequence at the same time.
C6_OneSequencePerExpiredCredential ==
  \A c1, c2 \in Callers :
    (c1 # c2 /\ InFlight(c1) /\ InFlight(c2)) => chk[c1][3] # chk[c2][3]

\* C7 as stated: an operation whose check ran after the expiry T
\* re-authenticated, one whose check ran before T did not, and the request
\* is composed with an expiry strictly in the future.
C7_ReauthExactlyAfterExpiry ==
  \A c \in Callers :
    req[c].sent =>
      /\ chk[c][1] > chk[c][2] => req[c].reauth
      /\ chk[c][1] < chk[c][2] => ~req[c].reauth
      /\ req[c].exp > req[c].at

\* C7 (amended): an operation re-authenticates before its request exactly
\* when its check runs at or after int(T), the expiry cut down to whole
\* seconds, and every request is composed with both tokens present and an
\* expiry strictly in the future.
C7_ReauthFromWholeSecondOfExpiry ==
  \A c \in Callers :
    req[c].sent =>
      /\ req[c].reauth <=> chk[c][1] >= int(chk[c][2])
      /\ req[c].exp > req[c].at
      /\ req[c].tok # 0 /\ req[c].ctok = req[c].tok

\* One caller composed a request after re-authenticating past the expiry,
\* the other composed one without, before the expiry.
C7_Witness ==
  \E c1, c2 \in Callers :
    /\ req[c1].sent /\ req[c1].reauth /\ chk[c1][1] > chk[c1][2]
    /\ req[c2].sent /\ ~req[c2].reauth /\ chk[c2][1] < int(chk[c2][2])

\* C8: the two tokens in the client's headers and the expiry come from
\* the same completed sequence, in every state.
C8_CredentialReplacedAsAUnit ==
  /\ authorization = expFrom
  /\ clientToken = expFrom

\* The sum of f over the set S of items.
RECURSIVE SumOver(_, _)
SumOver(f, S) ==
  IF S = {} THEN 0
  ELSE LET j == CHOOSE k \in S : TRUE IN f[j] + SumOver(f, S \ {j})

\* C11: the queue.join() inside Downloader.join / Decryptor.join has
\* returned only if every job the queue accepted was acknowledged by
\* task_done(), and no job is acknowledged more than once; at all times
\* _unfinished_tasks is the number of accepted jobs minus the number of
\* acknowledgements, and it is not negative.
C11_JoinWaitsForEveryAcknowledgement ==
  /\ \A j \in Items : dAck[j] <= 1 /\ xAck[j] <= 1
  /\ \A j \in Items : (j \notin dlAcc => dAck[j] = 0)
                   /\ (j \notin xAcc => xAck[j] = 0)
  /\ dqUnf = Cardinality(dlAcc) - SumOver(dAck, Items) /\ dqUnf >= 0
  /\ xqUnf = Cardinality(xAcc) - SumOver(xAck, Items) /\ xqUnf >= 0
  /\ "download" \in joined => \A j \in dlAcc : dAck[j] = 1
  /\ "decrypt" \in joined => \A j \in xAcc : xAck[j] = 1

\* Both joins have returned, after two downloads and their two decrypt
\* jobs were acknowledged.
C11_Witness ==
  /\ joined = {"download", "decrypt"}
  /\ dlAcc = {1, 2} /\ dAck[1] = 1 /\ dAck[2] = 1
  /\ xAcc = {1, 2} /\ xAck[1] = 1 /\ xAck[2] = 1

\* C12: decryptor.shutdown() happens only once the download queue is
\* drained, every download worker has stopped and every callback scheduled
\* by a fulfilled download has run; hence no decrypt enqueue is refused by
\* a closed decrypt queue.
C12_DecryptQueueClosedAfterCallbacks ==
  /\ xqShut => /\ cbPending = {}
               /\ dq = <<>> /\ dqUnf = 0
               /\ \A w \in Workers : wPc[w] \in Stopped
  /\ \A j \in Items : <<"decrypt", j>> \notin rejected

\* The decrypt queue is closed after two downloads chained their decrypt
\* jobs through the callback.
C12_Witness ==
  /\ xqShut
  /\ \A j \in {1, 2} : xVia[j] = "callback" /\ j \in xAcc

\* The download or decrypt enqueues that raised for item j.
Refused(j) == {<<"download", j>>, <<"decrypt", j>>} \cap rejected

\* C13: an item whose final file exists when enqueue_track looks, with or
\* without an interim file, gets no download job, no callback, no decrypt
\* job and no error.
C13_FinalPresentMeansSkip ==
  \A j \in Items :
    seen[j] # NotSeen /\ seen[j][2] =>
      /\ j \notin dlAcc /\ j \notin xAcc /\ j \notin chained
      /\ dlv[j] = 0 /\ xdlv[j] = 0
      /\ Refused(j) = {}
      /\ ~(mainPc = "raised" /\ idx = j)

\* Two items were skipped, one with an interim file beside its final file
\* and one without, and the run went on to its joins.
C13_Witness ==
  /\ seen[1] = <<"complete", TRUE>> /\ seen[2] = <<"absent", TRUE>>
  /\ mainPc = "finished"

\* The number of jobs of item j pending in queue q.
Copies(q, j) == Cardinality({k \in DOMAIN q : q[k] = j})

\* C14: an item of which only the interim file exists gets exactly one
\* decrypt job, enqueued directly, and no download job; an item of which
\* neither file exists gets exactly one download job and no direct
\* decrypt job.
C14_ResumeBranches ==
  \A j \in Items :
    /\ seen[j] # NotSeen /\ seen[j][1] # "absent" /\ ~seen[j][2] =>
         /\ j \in xAcc /\ xVia[j] = "direct"
         /\ Copies(xq, j) + xdlv[j] = 1
         /\ j \notin dlAcc /\ j \notin chained
         /\ Copies(dq, j) + dlv[j] = 0
    /\ seen[j] # NotSeen /\ seen[j][1] = "absent" /\ ~seen[j][2] =>
         /\ j \in dlAcc /\ j \in chained
         /\ Copies(dq, j) + dlv[j] = 1
         /\ xVia[j] # "direct"

\* One item was resumed from its interim file and decrypted, another was
\* downloaded from scratch.
C14_Witness ==
  /\ seen[1] = <<"complete", FALSE>> /\ xdlv[1] = 1
  /\ seen[2] = <<"absent", FALSE>> /\ dlv[2] = 1

\* ------------------------------------------------------ select_best_cdn
\* A candidate is an httpx.URL  https://<host>/...  and is modelled by its
\* host.  The hosts that only serve HTTP/1.1 and those that serve HTTP/2 or
\* HTTP/3, as listed at TrackSource.cdns.
SlowHosts == {"audio-ak.spotifycdn.com", "audio-fa.scdn.co"}
FastHosts == {"audio-fa-tls13.spotifycdn.com", "audio-fa-quic.spotifycdn.com"}
Hosts == SlowHosts \cup FastHosts

\* httpx.URL.netloc: the host (and port, when the URL has one) as bytes.
netloc(url) == <<"bytes", url>>

\* The tuple of str that select_best_cdn compares  cdn.netloc  with.
SlowNetlocs == {<<"str", "https://audio-ak.spotifycdn.com">>,
                <<"str", "https://audio-fa.scdn.co">>}

\* The sequences of at most n hosts.
RECURSIVE SeqsUpTo(_)
SeqsUpTo(n) ==
  IF n = 0 THEN {<<>>}
  ELSE LET shorter == SeqsUpTo(n - 1) IN
       shorter \cup {Append(q, h) : q \in shorter, h \in Hosts}

\* select_best_cdn is called with any collection of candidates.
InitCdn ==
  /\ TypeInit
  /\ session_auth_expire_time = MaxTTL
  /\ nItems = MaxItems
  /\ batch = [j \in Items |-> 1]
  /\ interim = [t \in Tracks |-> "absent"]
  /\ final = [t \in Tracks |-> FALSE]
  /\ mainPc = "get_track" /\ idx = 1
  /\ cdns \in SeqsUpTo(MaxCdns)
  /\ cdnPc = "loop" /\ cdnPos = 0
  /\ slower_cdn = None /\ faster_cdn = None /\ selected = None

\* One iteration of  for cdn in cdns .
select_best_cdn_loop ==
  /\ cdnPc = "loop"
  /\ cdnPos < Len(cdns)
  /\ LET cdn == cdns[cdnPos + 1] IN
       IF netloc(cdn) \in SlowNetlocs
         THEN slower_cdn' = cdn /\ UNCHANGED faster_cdn
         ELSE faster_cdn' = cdn /\ UNCHANGED slower_cdn
  /\ cdnPos' = cdnPos + 1
  /\ UNCHANGED <<cdns, cdnPc, selected>>
  /\ UNCHANGED authVars
  /\ UNCHANGED <<pipeVars, queueVars, workVars, futVars, histVars, obsVars>>

\* return faster_cdn or slower_cdn   (an httpx.URL is always true)
select_best_cdn_return ==
  /\ cdnPc = "loop"
  /\ cdnPos = Len(cdns)
  /\ selected' = IF faster_cdn # None THEN faster_cdn ELSE slower_cdn
  /\ cdnPc' = "returned"
  /\ UNCHANGED <<cdns, cdnPos, slower_cdn, faster_cdn>>
  /\ UNCHANGED authVars
  /\ UNCHANGED <<pipeVars, queueVars, workVars, futVars, histVars, obsVars>>

NextCdn ==
  \/ select_best_cdn_loop
  \/ select_best_cdn_return

SpecCdn == InitCdn /\ [][NextCdn]_vars

\* C15: select_best_cdn returns a candidate that is not one of the slow
\* endpoints whenever the candidates hold one, in whatever order they come,
\* and returns a slow endpoint only when every candidate is slow.
C15_PrefersNonSlowEndpoint ==
  cdnPc = "returned" =>
    /\ (\E k \in DOMAIN cdns : cdns[k] \in FastHosts) =>
         selected \in FastHosts
    /\ selected \in SlowHosts => \A k \in DOMAIN cdns : cdns[k] \in SlowHosts

\* C16: a job that a worker took from its queue and is through with, by
\* finishing it or by failing on it, has had its  done  future fulfilled by
\* that worker: a download with the number of bytes written, a failed job
\* with its exception.
C16_ProcessedJobIsFulfilled ==
  \A j \in Items :
    /\ dAck[j] >= 1 => done[j] = <<"result", MaxChunks>>
    /\ j \in dlFailed => done[j][1] = "exception"
    /\ xAck[j] >= 1 => xdone[j][1] = "result"
    /\ decOutcome[j] = "keyfail" => xdone[j][1] = "exception"

\* C17: once a queue is shut down, the workers of its pool leave their
\* loops by observing the closure, whether they were suspended in
\* queue.get() or busy with a job when shutdown() was called: no worker of
\* a closed queue has left its loop in another way.
C17_WorkersExitByObservingClosure ==
  /\ dqShut => \A w \in Workers : wPc[w] \in Stopped => wPc[w] = "exited"
  /\ xqShut => (xPc \in Stopped => xPc = "exited")

\* A download job that can still be acknowledged: a running worker holds
\* it, or it is pending and some worker is still running.
DlAlive(j) ==
  \/ \E w \in Workers : wJob[w] = j /\ wPc[w] \notin Stopped
  \/ InQueue(dq, j) /\ \E w \in Workers : wPc[w] \notin Stopped

\* A decrypt job that can still be acknowledged.
XAlive(j) == xPc \notin Stopped /\ (xJob = j \/ InQueue(xq, j))

\* C18: a batch run is never in a state from which it cannot complete:
\* while votifast_async waits in a queue.join(), every accepted job that
\* is not acknowledged yet can still be processed, also after the job of
\* another item failed.
C18_BatchRunCompletes ==
  /\ mainPc = "dl_qjoin" => \A j \in dlAcc : dAck[j] = 0 => DlAlive(j)
  /\ mainPc = "x_qjoin" => \A j \in xAcc : xAck[j] = 0 => XAlive(j)

\* A download worker has job j and has not yet closed its output file.
Writing(j) ==
  \E w \in Workers : wJob[w] = j /\ wPc[w] \in {"open", "xfer", "close"}

\* C19: the  done  future of a download is fulfilled only once its output
\* file is closed, and the decryptor holds the DecryptionJob of an item only
\* when the download worker of that item has closed the interim file.
C19_DecryptOnlyClosedInterim ==
  \A j \in Items :
    /\ done[j][1] = "result" => ~Writing(j)
    /\ xJob = j /\ xPc \in {"key", "tool"} => ~Writing(j)

\* The DownloadJob of item j is pending in the queue or being executed.
DlOutstanding(j) == j \in dlAcc /\ dAck[j] = 0 /\ j \notin dlFailed

\* C20: also when the listing names a track twice, no decrypt job is
\* enqueued directly for an interim file that a download worker had open
\* for writing at that moment, and no two download jobs for the same
\* interim path are outstanding together.
C20_NoSharedInterimPath ==
  /\ \A j \in Items : xVia[j] = "direct" => seen[j][1] # "writing"
  /\ \A i, j \in Items :
       i # j /\ batch[i] = batch[j] =>
         ~(DlOutstanding(i) /\ DlOutstanding(j))

\* C21: an interim file on storage is never the remainder of a download
\* that failed part-way, so the resume check of enqueue_track never finds
\* such a file and never passes it to the decryptor as already downloaded.
C21_NoPartialInterimLeft ==
  /\ \A t \in Tracks : interim[t] # "partial"
  /\ \A j \in Items : seen[j] # NotSeen => seen[j][1] # "partial"

\* C22: when votifast_async has ended, also by the exception of a failed
\* metadata request, the download queue has been shut down, every download
\* job accepted before has been processed and acknowledged, and no worker
\* was cancelled instead of leaving its loop through the closed queue.
C22_FailedRequestStillShutsDown ==
  mainPc = "closed" =>
    /\ dqShut
    /\ \A j \in dlAcc : dAck[j] = 1
    /\ \A w \in Workers : wPc[w] # "cancelled"
    /\ xPc # "cancelled"

====
